---- MODULE Spec2Model ----
(***************************************************************************)
(* Queue consumer loops of scrapyx/x.py (Command.consumer) on a shared     *)
(* redis backend: per-suffix backlog list, finished counter, rate counter. *)
(* Every redis call and the executor call is one atomic step of a loop;    *)
(* the local computation between two calls belongs to the step before it.  *)
(***************************************************************************)
EXTENDS Integers, Sequences, FiniteSets, TLC

\* ---------------------------------------------------------------- bounds
\* total number of payloads the producers push during a run
MaxPayloads == 2
\* seconds the clock advances in one Tick
TickSeconds == 30

\* ------------------------------------------------------- configuration
\* suffixes in the iteration order of queue_workers_count.items()
SuffixOrder == <<"a", "b">>

Suffixes == {SuffixOrder[i] : i \in 1..Len(SuffixOrder)}

\* self.queue_workers_count
Plan == [s \in Suffixes |-> IF s = "a" THEN 2 ELSE 1]

\* thread slots: one more per suffix than the plan asks for
Slots == 1..3

Workers == Suffixes \X Slots

\* no thread
NoWorker == <<"-", 0>>

\* self.spiders: names utils.discover_spiders found
Registry == {"foo"}

\* r.expire(key, 60)
RpmWindow == 60

\* ------------------------------------------------------------- payloads
\* a payload as the producer wrote it: type is what json.loads makes of it
\* ("garbage": it raises), spider and args the record's fields
NoField == "<absent>"

PayloadKinds ==
    { [type |-> "garbage", spider |-> "-",      args |-> "-"],
      [type |-> "list",    spider |-> "-",      args |-> "-"],
      [type |-> "dict",    spider |-> NoField,  args |-> NoField],
      [type |-> "dict",    spider |-> "nope",   args |-> "not-a-mapping"],
      [type |-> "dict",    spider |-> "[list]", args |-> "{x:1}"],
      [type |-> "dict",    spider |-> "foo",    args |-> "{x:1}"],
      [type |-> "dict",    spider |-> "foo",    args |-> "not-a-mapping"] }

\* what the producers of each queue push: every kind on the first queue, a
\* well-formed job or a list on the others
KindsFor(s) ==
    IF s = SuffixOrder[1] THEN PayloadKinds
    ELSE {k \in PayloadKinds : k.type = "list" \/ (k.spider = "foo" /\ k.args = "{x:1}")}

NoPayload == [id |-> 0, type |-> "none", spider |-> "-", args |-> "-"]

Ids == 1..MaxPayloads

VARIABLES
    settings,    \* X_QUEUE_NAME and the suffixes of X_QUEUE_WORKERS_COUNT
    names,       \* the key names boot derived, per suffix
    started,     \* index into SuffixOrder of the next suffix to start threads for
    pc,          \* position of each consumer thread
    conn,        \* each thread's own redis connection r
    held,        \* the payload a thread popped and is working on
    caught,      \* the thread caught an exception of utils.crawl in this iteration
    terminated,  \* os._exit was called
    exitAt,      \* which os._exit call ended the process
    exitBy,      \* the thread that called it
    backlog,     \* redis list per suffix
    finished,    \* redis finished counter per suffix (0: key absent)
    rpm,         \* redis rate counter per suffix (0: key absent)
    rpmTtl,      \* seconds to live of the rate counter key (-1: no expiry, 0: key absent)
    sent,        \* history: payloads pushed so far, sent[id] = [q, kind]
    pops,        \* history: how often payload id was popped
    execs,       \* history: how often the executor was called for payload id
    execArgs,    \* history: the args of the last executor call for payload id
    fins,        \* history: finished-counter increments done for payload id
    rpms         \* history: rate-counter increments done for payload id

vars == <<settings, names, started, pc, conn, held, caught, terminated, exitAt, exitBy, backlog, finished,
          rpm, rpmTtl, sent, pops, execs, execArgs, fins, rpms>>

bootVars == <<settings, names>>
loopVars == <<pc, conn, held, caught, terminated, exitAt, exitBy>>
backendVars == <<backlog, finished, rpm, rpmTtl>>
histVars == <<sent, pops, execs, execArgs, fins, rpms>>

\* self.settings.get('X_QUEUE_NAME', 'SCRAPY_X_QUEUE')
DefaultQueueName == "SCRAPY_X_QUEUE"

\* variant: the rate key is stored under the finished counter's name
DeriveKeysCopied(n, s) ==
    [backlog  |-> n \o "." \o s \o ".BACKLOG",
     finished |-> n \o "." \o s \o ".C.FINISHED.",
     rpm      |-> n \o "." \o s \o ".C.FINISHED."]

\* backlog_full_name, counter_full_name, rpm_full_name of suffix s under queue name n
DeriveKeys(n, s) ==
    [backlog  |-> n \o "." \o s \o ".BACKLOG",
     finished |-> n \o "." \o s \o ".C.FINISHED.",
     rpm      |-> n \o "." \o s \o ".C.RPM."]

\* the three dictionaries boot fills, one entry per suffix of the worker-count setting
BootNames(cfg) == [s \in cfg.suffixes |-> DeriveKeys(cfg.queue_name, s)]

Init ==
    /\ settings = [queue_name |-> DefaultQueueName, suffixes |-> Suffixes]
    /\ names = BootNames(settings)
    /\ started = 1
    /\ pc = [w \in Workers |-> "none"]
    /\ conn = [w \in Workers |-> "unopened"]
    /\ held = [w \in Workers |-> NoPayload]
    /\ caught = [w \in Workers |-> FALSE]
    /\ terminated = FALSE
    /\ exitAt = "none"
    /\ exitBy = NoWorker
    /\ backlog = [s \in Suffixes |-> <<>>]
    /\ finished = [s \in Suffixes |-> 0]
    /\ rpm = [s \in Suffixes |-> 0]
    /\ rpmTtl = [s \in Suffixes |-> 0]
    /\ sent = <<>>
    /\ pops = [i \in Ids |-> 0]
    /\ execs = [i \in Ids |-> 0]
    /\ execArgs = [i \in Ids |-> "-"]
    /\ fins = [i \in Ids |-> 0]
    /\ rpms = [i \in Ids |-> 0]

\* ------------------------------------------------------ pure operators
\* json.loads(payload) raises
JsonLoadsRaises(p) == p.type = "garbage"

\* task.get exists only on a dict
HasGet(p) == p.type = "dict"

\* task.get("spider", None)
TaskSpider(p) == IF p.spider = NoField THEN "None" ELSE p.spider

\* a list is no dictionary key: self.spiders.get(spider_name) raises TypeError
Unhashable(name) == name = "[list]"

\* variant: the lookup result is never None
SpidersGetNoDefault(name) == name

\* self.spiders.get(spider_name, None)
SpidersGet(name) == IF name \in Registry THEN name ELSE "None"

\* task.get("args", {})
TaskArgs(p) == IF p.args = NoField THEN "{}" ELSE p.args

IsDict(a) == a \in {"{}", "{x:1}"}

\* variant: args is passed on as it came
NormalizeArgsKeep(a) == a

\* if not isinstance(args, dict): args = {}
NormalizeArgs(a) == IF IsDict(a) THEN a ELSE "{}"

\* variant: an unparsable payload is never given up, the loop stays at decoding it
DecodeTargetStuck(p) ==
    IF JsonLoadsRaises(p) THEN "decoding"
    ELSE IF ~HasGet(p) THEN "exit200"
    ELSE IF Unhashable(TaskSpider(p)) THEN "exit200"
    ELSE IF SpidersGet(TaskSpider(p)) = "None" THEN "blocked"
    ELSE "dispatching"

\* variant: an unknown spider is not dispatched but falls through to the counters
DecodeTargetRecordsSkipped(p) ==
    IF p.type = "garbage" THEN "blocked"
    ELSE IF p.type # "dict" THEN "exit200"
    ELSE IF p.spider = "[list]" THEN "exit200"
    ELSE IF p.spider \notin Registry THEN "incrFinished"
    ELSE "dispatching"

\* variant: the json.loads handler logs and falls through instead of continuing
DecodeTargetNoSkip(p) ==
    IF p.type = "garbage" THEN "dispatching"
    ELSE IF p.type # "dict" THEN "exit200"
    ELSE IF p.spider = "[list]" THEN "exit200"
    ELSE IF p.spider \notin Registry THEN "blocked"
    ELSE "dispatching"

\* where the loop goes after json.loads .. "if not spider" on payload p
DecodeTarget(p) ==
    IF JsonLoadsRaises(p) THEN "blocked"
    ELSE IF ~HasGet(p) THEN "exit200"
    ELSE IF Unhashable(TaskSpider(p)) THEN "exit200"
    ELSE IF SpidersGet(TaskSpider(p)) = "None" THEN "blocked"
    ELSE "dispatching"

\* variant: a failed job is not counted
CrawlTargetSkipOnRaise(outcome) == IF outcome = "raised" THEN "blocked" ELSE "incrFinished"

\* variant: no try/except around utils.crawl
CrawlTargetUncaught(outcome) == IF outcome = "raised" THEN "exit200" ELSE "incrFinished"

\* variant: a failed job is dispatched again
CrawlTargetRetry(outcome) == IF outcome = "raised" THEN "dispatching" ELSE "incrFinished"

\* where the loop goes after utils.crawl returned or raised
CrawlTarget(outcome) == "incrFinished"

\* variant: the connection error is logged and the loop goes on
ConnectFailTargetSwallowed == "blocked"

\* where the loop goes when redis.Redis(...) raises
ConnectFailTarget == "exit134"

\* where the loop goes when r.blpop raises
BlpopFailTarget == "exit142"

\* variant: the backend error is logged and the loop goes on with the next job
RecordFailTargetSwallowed == "blocked"

\* where the loop goes when r.incr / r.expire raises
RecordFailTarget == "exit200"

\* variant: amount=2
IncrByTwo(v) == v + 2

\* r.incr(key, amount=1)
Incr(v) == v + 1

\* variant: the expiry is set after every increment
RpmTargetAlways(v) == "expire"

\* where the loop goes after the rate counter's incr returned v
RpmTarget(v) == IF v = 1 THEN "expire" ELSE "blocked"

ExitTargets == {"exit134", "exit142", "exit200"}

\* variant: sys.exit, which ends the calling thread only
AliveThreadOnly(w) == ~terminated \/ w # exitBy

\* a thread runs as long as nobody called os._exit
Alive(w) == ~terminated

\* move thread w to target, c telling whether it caught an executor error in this
\* iteration; an exit target is os._exit(-1), a return to the pop ends the iteration
GotoWith(w, target, c) ==
    IF target \in ExitTargets
    THEN /\ terminated' = TRUE
         /\ exitAt' = target
         /\ exitBy' = w
         /\ pc' = pc
         /\ held' = held
         /\ caught' = [caught EXCEPT ![w] = c]
    ELSE /\ pc' = [pc EXCEPT ![w] = target]
         /\ held' = IF target = "blocked" THEN [held EXCEPT ![w] = NoPayload] ELSE held
         /\ caught' = [caught EXCEPT ![w] = IF target = "blocked" THEN FALSE ELSE c]
         /\ UNCHANGED <<terminated, exitAt, exitBy>>

Goto(w, target) == GotoWith(w, target, caught[w])

\* -------------------------------------------------------------- actions
\* utils.threads(workers_count, self.consumer, queue_name_suffix)
Threads(s, count) == {<<s, i>> : i \in 1..count}

\* variant: every suffix gets the worker count of the first one
StartThreadsSameCount ==
    /\ ~terminated
    /\ started <= Len(SuffixOrder)
    /\ LET s == SuffixOrder[started] IN
       pc' = [w \in Workers |->
                IF w \in Threads(s, Plan[SuffixOrder[1]]) THEN "connecting" ELSE pc[w]]
    /\ started' = started + 1
    /\ UNCHANGED bootVars
    /\ UNCHANGED <<conn, held, caught, terminated, exitAt, exitBy>>
    /\ UNCHANGED backendVars
    /\ UNCHANGED histVars

StartThreads ==
    /\ ~terminated
    /\ started <= Len(SuffixOrder)
    /\ LET s == SuffixOrder[started] IN
       pc' = [w \in Workers |-> IF w \in Threads(s, Plan[s]) THEN "connecting" ELSE pc[w]]
    /\ started' = started + 1
    /\ UNCHANGED bootVars
    /\ UNCHANGED <<conn, held, caught, terminated, exitAt, exitBy>>
    /\ UNCHANGED backendVars
    /\ UNCHANGED histVars

Connect(w) ==
    /\ Alive(w)
    /\ pc[w] = "connecting"
    /\ conn' = [conn EXCEPT ![w] = "open"]
    /\ Goto(w, "blocked")
    /\ UNCHANGED <<started>>
    /\ UNCHANGED bootVars
    /\ UNCHANGED backendVars
    /\ UNCHANGED histVars

ConnectFail(w) ==
    /\ Alive(w)
    /\ pc[w] = "connecting"
    /\ conn' = [conn EXCEPT ![w] = "failed"]
    /\ Goto(w, ConnectFailTarget)
    /\ UNCHANGED <<started>>
    /\ UNCHANGED bootVars
    /\ UNCHANGED backendVars
    /\ UNCHANGED histVars

Blpop(w) ==
    /\ Alive(w)
    /\ pc[w] = "blocked"
    /\ backlog[w[1]] # <<>>
    /\ LET p == Head(backlog[w[1]]) IN
       /\ held' = [held EXCEPT ![w] = p]
       /\ pops' = [pops EXCEPT ![p.id] = @ + 1]
    /\ backlog' = [backlog EXCEPT ![w[1]] = Tail(@)]
    /\ pc' = [pc EXCEPT ![w] = "decoding"]
    /\ UNCHANGED <<started, conn, caught, terminated, exitAt, exitBy>>
    /\ UNCHANGED bootVars
    /\ UNCHANGED <<finished, rpm, rpmTtl>>
    /\ UNCHANGED <<sent, execs, execArgs, fins, rpms>>

BlpopError(w) ==
    /\ Alive(w)
    /\ pc[w] = "blocked"
    /\ Goto(w, BlpopFailTarget)
    /\ UNCHANGED <<started, conn>>
    /\ UNCHANGED bootVars
    /\ UNCHANGED backendVars
    /\ UNCHANGED histVars

Decode(w) ==
    /\ Alive(w)
    /\ pc[w] = "decoding"
    /\ Goto(w, DecodeTarget(held[w]))
    /\ UNCHANGED <<started, conn>>
    /\ UNCHANGED bootVars
    /\ UNCHANGED backendVars
    /\ UNCHANGED histVars

Crawl(w, outcome) ==
    /\ Alive(w)
    /\ pc[w] = "dispatching"
    /\ execs' = [execs EXCEPT ![held[w].id] = @ + 1]
    /\ execArgs' = [execArgs EXCEPT ![held[w].id] = NormalizeArgs(TaskArgs(held[w]))]
    /\ GotoWith(w, CrawlTarget(outcome), outcome = "raised")
    /\ UNCHANGED <<started, conn>>
    /\ UNCHANGED bootVars
    /\ UNCHANGED backendVars
    /\ UNCHANGED <<sent, pops, fins, rpms>>

IncrFinished(w) ==
    /\ Alive(w)
    /\ pc[w] = "incrFinished"
    /\ finished' = [finished EXCEPT ![w[1]] = Incr(@)]
    /\ fins' = [fins EXCEPT ![held[w].id] = @ + 1]
    /\ Goto(w, "incrRpm")
    /\ UNCHANGED <<started, conn>>
    /\ UNCHANGED bootVars
    /\ UNCHANGED <<backlog, rpm, rpmTtl>>
    /\ UNCHANGED <<sent, pops, execs, execArgs, rpms>>

IncrRpm(w) ==
    /\ Alive(w)
    /\ pc[w] = "incrRpm"
    /\ rpm' = [rpm EXCEPT ![w[1]] = Incr(@)]
    /\ rpmTtl' = [rpmTtl EXCEPT ![w[1]] = IF rpm[w[1]] = 0 THEN -1 ELSE @]
    /\ rpms' = [rpms EXCEPT ![held[w].id] = @ + 1]
    /\ Goto(w, RpmTarget(Incr(rpm[w[1]])))
    /\ UNCHANGED <<started, conn>>
    /\ UNCHANGED bootVars
    /\ UNCHANGED <<backlog, finished>>
    /\ UNCHANGED <<sent, pops, execs, execArgs, fins>>

Expire(w) ==
    /\ Alive(w)
    /\ pc[w] = "expire"
    /\ rpmTtl' = [rpmTtl EXCEPT ![w[1]] = IF rpm[w[1]] = 0 THEN 0 ELSE RpmWindow]
    /\ Goto(w, "blocked")
    /\ UNCHANGED <<started, conn>>
    /\ UNCHANGED bootVars
    /\ UNCHANGED <<backlog, finished, rpm>>
    /\ UNCHANGED histVars

\* r.incr or r.expire raises: the outer handler calls os._exit
RecordError(w) ==
    /\ Alive(w)
    /\ pc[w] \in {"incrFinished", "incrRpm", "expire"}
    /\ Goto(w, RecordFailTarget)
    /\ UNCHANGED <<started, conn>>
    /\ UNCHANGED bootVars
    /\ UNCHANGED backendVars
    /\ UNCHANGED histVars

\* a producer pushes a payload onto the backlog of queue s
Enqueue(s, k) ==
    /\ Len(sent) < MaxPayloads
    /\ LET p == [id |-> Len(sent) + 1, type |-> k.type, spider |-> k.spider, args |-> k.args] IN
       /\ backlog' = [backlog EXCEPT ![s] = Append(@, p)]
       /\ sent' = Append(sent, [q |-> s, p |-> p])
    /\ UNCHANGED <<started>>
    /\ UNCHANGED bootVars
    /\ UNCHANGED loopVars
    /\ UNCHANGED <<finished, rpm, rpmTtl>>
    /\ UNCHANGED <<pops, execs, execArgs, fins, rpms>>

\* time passes on the backend: keys with an expiry lose TickSeconds, and vanish at 0
Tick ==
    /\ \E s \in Suffixes : rpmTtl[s] > 0
    /\ rpmTtl' = [s \in Suffixes |->
                    IF rpmTtl[s] > 0
                    THEN (IF rpmTtl[s] > TickSeconds THEN rpmTtl[s] - TickSeconds ELSE 0)
                    ELSE rpmTtl[s]]
    /\ rpm' = [s \in Suffixes |->
                    IF rpmTtl[s] > 0 /\ rpmTtl[s] <= TickSeconds THEN 0 ELSE rpm[s]]
    /\ UNCHANGED <<started>>
    /\ UNCHANGED bootVars
    /\ UNCHANGED loopVars
    /\ UNCHANGED <<backlog, finished>>
    /\ UNCHANGED histVars

Next ==
    \/ StartThreads
    \/ \E w \in Workers : Connect(w)
    \/ \E w \in Workers : ConnectFail(w)
    \/ \E w \in Workers : Blpop(w)
    \/ \E w \in Workers : BlpopError(w)
    \/ \E w \in Workers : Decode(w)
    \/ \E w \in Workers : \E o \in {"ok", "raised"} : Crawl(w, o)
    \/ \E w \in Workers : IncrFinished(w)
    \/ \E w \in Workers : IncrRpm(w)
    \/ \E w \in Workers : Expire(w)
    \/ \E w \in Workers : RecordError(w)
    \/ \E s \in Suffixes : \E k \in KindsFor(s) : Enqueue(s, k)
    \/ Tick

Spec == Init /\ [][Next]_vars

\* a step of loop w that needs no failure of the backend: the statements of the
\* thread's own code, which a running thread goes on executing
LoopStep(w) ==
    \/ Connect(w)
    \/ Blpop(w)
    \/ Decode(w)
    \/ \E o \in {"ok", "raised"} : Crawl(w, o)
    \/ IncrFinished(w)
    \/ IncrRpm(w)
    \/ Expire(w)

\* the main thread and every consumer thread are scheduled again and again, and
\* every call of the executor returns or raises
FairSpec ==
    /\ Spec
    /\ WF_vars(StartThreads)
    /\ \A w \in Workers : WF_vars(LoopStep(w))

\* ------------------------------------------------ key derivation on its own
\* queue names and suffixes boot may be configured with
QueueNames == {"Q", "Q.a", DefaultQueueName}

SuffixPool == {"a", "b", "a.b", "a.BACKLOG", "a.C", ".C.RPM", "a.C.FINISHED."}

\* before boot: any queue name, any non-empty set of distinct suffixes, no names yet
InitKeys ==
    /\ settings \in [queue_name : QueueNames, suffixes : (SUBSET SuffixPool) \ {{}}]
    /\ names = [s \in {} |-> DeriveKeys("", "")]
    /\ started = 1
    /\ pc = [w \in Workers |-> "none"]
    /\ conn = [w \in Workers |-> "unopened"]
    /\ held = [w \in Workers |-> NoPayload]
    /\ caught = [w \in Workers |-> FALSE]
    /\ terminated = FALSE
    /\ exitAt = "none"
    /\ exitBy = NoWorker
    /\ backlog = [s \in Suffixes |-> <<>>]
    /\ finished = [s \in Suffixes |-> 0]
    /\ rpm = [s \in Suffixes |-> 0]
    /\ rpmTtl = [s \in Suffixes |-> 0]
    /\ sent = <<>>
    /\ pops = [i \in Ids |-> 0]
    /\ execs = [i \in Ids |-> 0]
    /\ execArgs = [i \in Ids |-> "-"]
    /\ fins = [i \in Ids |-> 0]
    /\ rpms = [i \in Ids |-> 0]

\* the loop over queue_workers_count.keys() in boot
Boot ==
    /\ DOMAIN names = {}
    /\ names' = BootNames(settings)
    /\ UNCHANGED <<settings, started>>
    /\ UNCHANGED loopVars
    /\ UNCHANGED backendVars
    /\ UNCHANGED histVars

NextKeys == Boot

SpecKeys == InitKeys /\ [][NextKeys]_vars

TypeOK ==
    /\ started \in 1..(Len(SuffixOrder) + 1)
    /\ terminated \in BOOLEAN
    /\ exitAt \in ExitTargets \cup {"none"}
    /\ exitBy \in Workers \cup {NoWorker}
    /\ \A w \in Workers :
         /\ caught[w] \in BOOLEAN
         /\ pc[w] \in {"none", "connecting", "blocked", "decoding", "dispatching",
                       "incrFinished", "incrRpm", "expire"}
         /\ conn[w] \in {"unopened", "open", "failed"}
    /\ \A s \in Suffixes : finished[s] \in Nat /\ rpm[s] \in Nat /\ rpmTtl[s] \in -1..RpmWindow
    /\ Len(sent) <= MaxPayloads

\* ------------------------------------------------- vocabulary of the claims
SentIds == 1..Len(sent)

Kind(id) == sent[id].p

QueueOf(id) == sent[id].q

IdsOf(q) == {id \in SentIds : QueueOf(id) = q}

\* the threads the plan asks for on queue q
LoopsOf(q) == {w \in Workers : w[1] = q /\ w[2] <= Plan[q]}

Holders(id) == {w \in Workers : held[w].id = id}

\* a record whose spider is in the registry
Recordable(p) == p.type = "dict" /\ p.spider \in Registry

\* a record whose spider field is missing or a name the registry does not have
UnknownId(p) == p.type = "dict" /\ p.spider \notin Registry /\ p.spider # "[list]"

RecordingPcs == {"incrFinished", "incrRpm", "expire"}

\* every loop of q waits in blpop on an empty backlog
Quiescent(q) ==
    /\ started > Len(SuffixOrder)
    /\ backlog[q] = <<>>
    /\ \A w \in LoopsOf(q) : pc[w] = "blocked"

RECURSIVE SumOver(_, _)
SumOver(f, S) ==
    IF S = {} THEN 0
    ELSE LET x == CHOOSE y \in S : TRUE IN f[x] + SumOver(f, S \ {x})

\* payload id went through a whole iteration: popped, and no loop holds it any more
Done(id) == pops[id] >= 1 /\ Holders(id) = {}

\* ------------------------------------------------------------------- C1
\* C1 as stated: once the W loops of a queue have drained its backlog and the
\* process still runs, the number of Recording iterations (finished-counter
\* update and rate-counter update) equals the number K of payloads enqueued.
C1_EveryPayloadRecorded ==
    \A q \in Suffixes :
        (Quiescent(q) /\ ~terminated) =>
            /\ SumOver(fins, IdsOf(q)) = Cardinality(IdsOf(q))
            /\ SumOver(rpms, IdsOf(q)) = Cardinality(IdsOf(q))

\* C1 amended: no payload is popped or recorded twice, only records with a known
\* spider are recorded, and once the loops of a queue have drained its backlog
\* (process still running) the Recording iterations are exactly one per enqueued
\* record with a known spider.
C1_RecordedAtMostOnceAndKnownExactlyOnce ==
    /\ \A id \in SentIds :
         /\ pops[id] <= 1 /\ fins[id] <= 1 /\ rpms[id] <= 1
         /\ Cardinality(Holders(id)) <= 1
         /\ (fins[id] > 0 \/ rpms[id] > 0) => Recordable(Kind(id))
    /\ \A q \in Suffixes :
         (Quiescent(q) /\ ~terminated) =>
            /\ SumOver(fins, IdsOf(q)) = Cardinality({id \in IdsOf(q) : Recordable(Kind(id))})
            /\ SumOver(rpms, IdsOf(q)) = Cardinality({id \in IdsOf(q) : Recordable(Kind(id))})

\* every payload of the run went to the two-loop queue as a known job and was recorded
C1_Witness ==
    /\ ~terminated
    /\ Quiescent("a")
    /\ Cardinality(IdsOf("a")) = MaxPayloads
    /\ \A id \in IdsOf("a") : Recordable(Kind(id)) /\ fins[id] = 1 /\ rpms[id] = 1

\* ------------------------------------------------------------------- C2
\* C2 as stated: the process is never terminated by the loop that is decoding a
\* popped payload, whatever the payload's content.
C2_PayloadNeverTerminates ==
    terminated => pc[exitBy] # "decoding"

\* ------------------------------------------------------------------- C3
\* C3: an unparsable payload is never passed to the executor and never counted; the
\* loop that decodes it goes back to the blocking pop in that very step, without
\* ending the process, and it never ends the process.
C3_UnparsableSkipped ==
    /\ [](\A id \in SentIds :
            Kind(id).type = "garbage" => execs[id] = 0 /\ fins[id] = 0 /\ rpms[id] = 0)
    /\ [](\A w \in Workers : held[w].type = "garbage" => pc[w] = "decoding")
    /\ [](terminated => held[exitBy].type # "garbage")
    /\ [][\A w \in Workers :
            (pc[w] = "decoding" /\ held[w].type = "garbage" /\ held'[w] # held[w]) =>
                /\ pc'[w] = "blocked"
                /\ terminated' = terminated
                /\ finished' = finished /\ rpm' = rpm /\ execs' = execs]_vars

C3_Witness ==
    \E id \in SentIds :
        /\ Kind(id).type = "garbage"
        /\ Done(id)
        /\ ~terminated
        /\ \E w \in LoopsOf(QueueOf(id)) : pc[w] = "blocked"

\* ------------------------------------------------------------------- C4
\* C4: a record whose spider is missing or not in the registry is never passed to
\* the executor, its loop never ends the process over it, and the decoding step
\* drops it and returns to the blocking pop.
C4_UnknownIdDropped ==
    /\ [](\A id \in SentIds : UnknownId(Kind(id)) => execs[id] = 0)
    /\ [](\A w \in Workers : UnknownId(held[w]) => pc[w] = "decoding")
    /\ [](terminated => ~UnknownId(held[exitBy]))
    /\ [][\A w \in Workers :
            (pc[w] = "decoding" /\ UnknownId(held[w]) /\ held'[w] # held[w]) =>
                (pc'[w] = "blocked" /\ terminated' = terminated /\ execs' = execs)]_vars

C4_Witness ==
    /\ ~terminated
    /\ \E id \in SentIds : Kind(id).spider = "nope" /\ Done(id)
    /\ \E id \in SentIds : Kind(id).spider = NoField /\ Kind(id).type = "dict" /\ Done(id)

\* ------------------------------------------------------------------- C5
\* C5 as stated: every popped payload that json.loads accepted has, once its
\* iteration is over, exactly one finished-counter and one rate-counter update.
C5_EveryDecodedCounted ==
    \A id \in SentIds :
        (Kind(id).type # "garbage" /\ Done(id)) => (fins[id] = 1 /\ rpms[id] = 1)

\* C5 amended: a record with a known spider is counted exactly once, after its
\* dispatch, whether the executor returned or raised, by the end of its iteration;
\* every other payload (unknown or missing spider, not a record, unparsable) is
\* never counted.
C5_KnownCountedOnceOthersNever ==
    \A id \in SentIds :
        /\ fins[id] <= 1 /\ rpms[id] <= fins[id] /\ fins[id] <= execs[id]
        /\ (Recordable(Kind(id)) /\ Done(id)) =>
               (execs[id] = 1 /\ fins[id] = 1 /\ rpms[id] = 1)
        /\ ~Recordable(Kind(id)) => (fins[id] = 0 /\ rpms[id] = 0)

\* one job whose executor raised has just been counted in both counters, and an
\* unknown job went through its iteration uncounted
C5_Witness ==
    /\ \E w \in Workers :
         /\ caught[w] /\ pc[w] = "expire"
         /\ fins[held[w].id] = 1 /\ rpms[held[w].id] = 1
    /\ \E id \in SentIds : UnknownId(Kind(id)) /\ Done(id) /\ fins[id] = 0

\* ------------------------------------------------------------------- C6
\* C6: per queue the finished counter equals the number of executor calls made for
\* the queue minus the loops that have not yet run their increment (so N once N
\* cycles are through), and every step leaves it alone or adds exactly 1.
C6_FinishedCountsCycles ==
    /\ [](\A q \in Suffixes :
            finished[q] + Cardinality({w \in LoopsOf(q) : pc[w] = "incrFinished"})
                = SumOver(execs, IdsOf(q)))
    /\ [][\A q \in Suffixes :
            finished'[q] = finished[q] \/ finished'[q] = finished[q] + 1]_vars

C6_Witness ==
    /\ finished["a"] = MaxPayloads
    /\ Quiescent("a")
    /\ SumOver(execs, IdsOf("a")) = MaxPayloads

\* ------------------------------------------------------------------- C7
\* C7: a loop that caught an error of the executor is at the counter update of the
\* same payload (finished counter first, then rate counter, then back to the
\* pop), the payload was passed to the executor once, and no loop ever ends the
\* process from the dispatch step.
C7_ExecutorErrorCaught ==
    /\ \A id \in SentIds : execs[id] <= 1
    /\ \A w \in Workers :
         caught[w] =>
            /\ pc[w] \in RecordingPcs
            /\ execs[held[w].id] = 1
            /\ fins[held[w].id] = (IF pc[w] = "incrFinished" THEN 0 ELSE 1)
            /\ rpms[held[w].id] = (IF pc[w] = "expire" THEN 1 ELSE 0)
    /\ terminated => pc[exitBy] # "dispatching"
    /\ \A id \in SentIds :
         (Recordable(Kind(id)) /\ Done(id)) => (fins[id] = 1 /\ rpms[id] = 1)

\* the executor raised, and the loop has gone on to the rate counter with the
\* finished counter updated, the process running
C7_Witness ==
    \E w \in Workers :
        /\ caught[w]
        /\ pc[w] = "incrRpm"
        /\ fins[held[w].id] = 1
        /\ ~terminated

\* ------------------------------------------------------------------- C8
\* C8 as stated: the loop that ended the process did so in Connecting or on the
\* blocking pop, never in Decoding, Dispatching or Recording.
C8_OnlyConnectOrPopFatal ==
    terminated => pc[exitBy] \in {"connecting", "blocked"}

\* ------------------------------------------------------------------- C9
\* C9: once the process is terminated it stays terminated and no loop moves: no
\* pop, no executor call, no counter update, no change of any loop's position,
\* connection or payload; the backend only receives what producers and the clock do.
C9_TerminationStopsEveryLoop ==
    [][terminated =>
        /\ terminated'
        /\ UNCHANGED <<started, pc, conn, held, exitAt, exitBy>>
        /\ UNCHANGED <<caught, pops, execs, fins, rpms, finished>>
        /\ \A q \in Suffixes :
             /\ Len(backlog'[q]) >= Len(backlog[q])
             /\ rpm'[q] \in {rpm[q], 0}]_vars

\* the process ended by a loop of one queue while a loop of the other queue was
\* in the middle of a job and payloads are still on a backlog
C9_Witness ==
    /\ terminated
    /\ \E w \in Workers : w[1] # exitBy[1] /\ pc[w] \in {"decoding", "dispatching"} \cup RecordingPcs
    /\ \E q \in Suffixes : backlog[q] # <<>>

\* ------------------------------------------------------------------- C10
\* C10: a loop whose connection attempt failed has ended the process at that
\* point: it is still in Connecting, it is the loop that exited, and it holds no
\* payload.
C10_ConnectFailureTerminates ==
    \A w \in Workers :
        conn[w] = "failed" =>
            /\ terminated
            /\ exitBy = w
            /\ exitAt = "exit134"
            /\ pc[w] = "connecting"
            /\ held[w] = NoPayload

C10_Witness ==
    /\ terminated
    /\ conn[exitBy] = "failed"
    /\ \E q \in Suffixes : backlog[q] # <<>>

\* ------------------------------------------------------------------- C11
\* the ids on the backlog of q, in order
BacklogIds(q) == [i \in 1..Len(backlog[q]) |-> backlog[q][i].id]

\* C11: a backlog holds exactly the payloads producers pushed on it that no loop has
\* popped yet, each once and in the order pushed: a popped payload is on no backlog
\* again, whatever became of it, and no payload is popped or passed to the executor
\* more than once.
C11_NeverRequeuedNorRetried ==
    /\ \A id \in SentIds : pops[id] <= 1 /\ execs[id] <= 1
    /\ \A q \in Suffixes :
         /\ {BacklogIds(q)[i] : i \in 1..Len(backlog[q])} = {id \in IdsOf(q) : pops[id] = 0}
         /\ \A i, j \in 1..Len(backlog[q]) : i < j => BacklogIds(q)[i] < BacklogIds(q)[j]

\* the process ended while one payload was at the executor and after another was
\* dropped as unparsable: neither is on a backlog
C11_Witness ==
    /\ terminated
    /\ \E w \in Workers : pc[w] = "dispatching" /\ pops[held[w].id] = 1
    /\ \E id \in SentIds : Kind(id).type = "garbage" /\ Done(id)
    /\ \A q \in Suffixes : backlog[q] = <<>>

LoopsStarted(s) == {w \in Workers : w[1] = s /\ pc[w] # "none"}

\* C13: once the supervisor has handled a suffix, exactly the plan's count of loops
\* runs on it, none before; when it is through the plan the loops are as many as
\* the plan's counts add up to; a loop is started only by the supervisor's step for
\* its suffix, and a loop once started is never started again nor taken away.
C13_PlanStartedOnce ==
    /\ [](\A i \in 1..Len(SuffixOrder) :
            Cardinality(LoopsStarted(SuffixOrder[i])) =
                (IF started > i THEN Plan[SuffixOrder[i]] ELSE 0))
    /\ [](started > Len(SuffixOrder) =>
            Cardinality({w \in Workers : pc[w] # "none"}) = SumOver(Plan, Suffixes))
    /\ [][/\ started' >= started
          /\ \A w \in Workers :
               /\ (pc[w] = "none" /\ pc'[w] # "none") =>
                     /\ pc'[w] = "connecting"
                     /\ started' = started + 1
                     /\ w[1] = SuffixOrder[started]
               /\ pc[w] # "none" => pc'[w] \notin {"none", "connecting"} \/ pc'[w] = pc[w]]_vars

\* the supervisor is through the plan and its three loops have worked: every
\* payload of the run is done and all loops wait on their backlogs
C13_Witness ==
    /\ started > Len(SuffixOrder)
    /\ Len(sent) = MaxPayloads
    /\ \A id \in SentIds : Done(id)
    /\ \A s \in Suffixes : Cardinality({w \in LoopsStarted(s) : pc[w] = "blocked"}) = Plan[s]

\* ------------------------------------------------------------------- C14
\* C14: every executor call gets a mapping as args: the payload's own mapping when it
\* has one, the empty mapping when its args field is anything else; a record with a
\* known spider and such an args field is dispatched like any other.
C14_ArgsAlwaysMapping ==
    \A id \in SentIds :
        /\ execs[id] >= 1 =>
              /\ execArgs[id] \in {"{}", "{x:1}"}
              /\ execArgs[id] = (IF Kind(id).args = "{x:1}" THEN "{x:1}" ELSE "{}")
        /\ (Recordable(Kind(id)) /\ Done(id)) => execs[id] = 1
        /\ (Recordable(Kind(id)) /\ terminated /\ exitBy \in Holders(id)) =>
               pc[exitBy] \in RecordingPcs

C14_Witness ==
    \E id \in SentIds :
        /\ Kind(id).spider = "foo"
        /\ Kind(id).args = "not-a-mapping"
        /\ execs[id] = 1
        /\ execArgs[id] = "{}"
        /\ Done(id)
        /\ ~terminated

\* ------------------------------------------------------------------- C15
KeyRoles == {"backlog", "finished", "rpm"}

\* C15: after boot every configured suffix S has, under queue name N, the keys
\* N.S.BACKLOG, N.S.C.FINISHED. and N.S.C.RPM., and no two of the keys of all
\* suffixes and roles are the same string.
C15_KeysExactAndDistinct ==
    DOMAIN names # {} =>
        /\ DOMAIN names = settings.suffixes
        /\ \A s \in DOMAIN names :
             /\ names[s].backlog = settings.queue_name \o "." \o s \o ".BACKLOG"
             /\ names[s].finished = settings.queue_name \o "." \o s \o ".C.FINISHED."
             /\ names[s].rpm = settings.queue_name \o "." \o s \o ".C.RPM."
        /\ \A s1, s2 \in DOMAIN names : \A r1, r2 \in KeyRoles :
             names[s1][r1] = names[s2][r2] => (s1 = s2 /\ r1 = r2)

\* booted with suffixes that contain a dot, a role tag and each other
C15_Witness ==
    /\ DOMAIN names = SuffixPool
    /\ names["a.BACKLOG"].backlog = settings.queue_name \o ".a.BACKLOG.BACKLOG"
    /\ settings.queue_name = "Q.a"

\* ------------------------------------------------------------------- C16
\* the moves a loop makes: position before, position after
LoopOrder ==
    { <<"none", "connecting">>, <<"connecting", "blocked">>, <<"blocked", "decoding">>,
      <<"decoding", "dispatching">>, <<"decoding", "blocked">>,
      <<"dispatching", "incrFinished">>, <<"incrFinished", "incrRpm">>,
      <<"incrRpm", "expire">>, <<"incrRpm", "blocked">>, <<"expire", "blocked">> }

\* C16: a loop moves only along Connecting, Blocked, Decoding, Dispatching,
\* Recording (finished counter, rate counter, expiry) and back to Blocked, leaving
\* the cycle early only from Decoding; it holds a payload exactly between its pop
\* and its return to the pop, and pops only when it holds none; the executor is
\* called only by a loop at Dispatching for the record with a known spider it
\* holds; a job's counters are updated only after its executor call, the finished
\* counter before the rate counter.
C16_LoopStateOrder ==
    /\ [](\A w \in Workers :
            (held[w] # NoPayload) <=>
                (pc[w] \in {"decoding", "dispatching"} \cup RecordingPcs))
    /\ [](\A id \in SentIds :
            /\ rpms[id] <= fins[id] /\ fins[id] <= execs[id] /\ execs[id] <= pops[id]
            /\ execs[id] >= 1 => Recordable(Kind(id)))
    /\ [][\A w \in Workers :
            /\ pc'[w] # pc[w] => <<pc[w], pc'[w]>> \in LoopOrder
            /\ held'[w] # held[w] =>
                  \/ (pc[w] = "blocked" /\ held[w] = NoPayload /\ pc'[w] = "decoding")
                  \/ (held'[w] = NoPayload /\ pc'[w] = "blocked")
            /\ (held[w] # NoPayload /\ execs'[held[w].id] # execs[held[w].id]) =>
                  (pc[w] = "dispatching" /\ pc'[w] = "incrFinished")
            /\ (held[w] # NoPayload /\ fins'[held[w].id] # fins[held[w].id]) =>
                  (pc[w] = "incrFinished" /\ execs[held[w].id] = 1)
            /\ (held[w] # NoPayload /\ rpms'[held[w].id] # rpms[held[w].id]) =>
                  (pc[w] = "incrRpm" /\ fins[held[w].id] = 1)]_vars

\* a loop is in its second iteration, at the expire step, after a first one that
\* went the whole cycle
C16_Witness ==
    \E w \in Workers :
        /\ pc[w] = "expire"
        /\ \E id \in SentIds : id # held[w].id /\ QueueOf(id) = w[1] /\ Done(id) /\ rpms[id] = 1
        /\ Plan[w[1]] = 1

\* ------------------------------------------------------------------- C17
IterationPcs == {"decoding", "dispatching"} \cup RecordingPcs

\* C17: a loop is never in the middle of an iteration for ever: again and again it
\* is outside an iteration or the process has terminated, and the only way out of
\* an iteration is the blocking pop; and no payload stays on a backlog for ever:
\* again and again every payload sent has been popped or the process has terminated.
C17_LoopReturnsAndPayloadsPopped ==
    /\ \A w \in Workers : []<>(pc[w] \in IterationPcs => terminated)
    /\ \A id \in Ids : []<>(id \in SentIds => (pops[id] >= 1 \/ terminated))
    /\ [][\A w \in Workers :
            (pc[w] \in IterationPcs /\ pc'[w] \notin IterationPcs) => pc'[w] = "blocked"]_vars

\* an unparsable payload and a job whose executor raised have both been popped and
\* their loops wait on the backlog again
C17_Witness ==
    /\ ~terminated
    /\ \E i, j \in SentIds :
         /\ JsonLoadsRaises(Kind(i)) /\ pops[i] = 1
         /\ execs[j] = 1 /\ fins[j] = 1
    /\ \A q \in Suffixes :
         /\ backlog[q] = <<>>
         /\ \A w \in LoopsOf(q) : pc[w] = "blocked" /\ held[w] = NoPayload

\* ------------------------------------------------------------------- C18
\* C18: a loop leaves a counter step only by performing it (finished counter, then
\* rate counter, then the expiry when the rate counter read 1); when the process
\* was ended by a loop standing at a counter step, it was ended through the outer
\* handler, and that step and the ones after it were not performed for its job.
C18_RecordingErrorTerminates ==
    /\ [](terminated /\ exitBy # NoWorker =>
            (pc[exitBy] \in RecordingPcs =>
                /\ exitAt = "exit200"
                /\ fins[held[exitBy].id] = (IF pc[exitBy] = "incrFinished" THEN 0 ELSE 1)
                /\ rpms[held[exitBy].id] = (IF pc[exitBy] = "expire" THEN 1 ELSE 0)
                /\ pc[exitBy] = "expire" => rpmTtl[exitBy[1]] = -1))
    /\ [][\A w \in Workers :
            (pc[w] \in RecordingPcs /\ pc'[w] # pc[w]) =>
                /\ ~terminated'
                /\ pc[w] = "incrFinished" =>
                      (pc'[w] = "incrRpm" /\ finished'[w[1]] = finished[w[1]] + 1)
                /\ pc[w] = "incrRpm" =>
                      (pc'[w] \in {"expire", "blocked"} /\ rpm'[w[1]] = rpm[w[1]] + 1)
                /\ pc[w] = "expire" =>
                      (pc'[w] = "blocked" /\ rpmTtl'[w[1]] = RpmWindow)]_vars

\* the rate counter's increment failed after the finished counter was updated
C18_Witness ==
    /\ terminated
    /\ exitAt = "exit200"
    /\ pc[exitBy] = "incrRpm"
    /\ fins[held[exitBy].id] = 1
    /\ rpms[held[exitBy].id] = 0

\* ------------------------------------------------------------------- C19
\* C19 as stated: a rate counter key that exists without an expiry has a loop of its
\* queue at the expire step in a process that still runs, and at most one loop of a
\* queue is at that step.
C19_RateKeyAlwaysGetsExpiry ==
    \A q \in Suffixes :
        /\ Cardinality({w \in LoopsOf(q) : pc[w] = "expire"}) <= 1
        /\ (rpm[q] >= 1 /\ rpmTtl[q] = -1) =>
               (~terminated /\ \E w \in LoopsOf(q) : pc[w] = "expire")

\* ------------------------------------------------------------------- C20
\* jobs of q that went through their iteration without reaching the counters
Skipped(q) ==
    {id \in IdsOf(q) : Done(id) /\ (Kind(id).type = "garbage" \/ UnknownId(Kind(id)))}

\* loops of q between their pop and their finished-counter increment
InFlight(q) == {w \in LoopsOf(q) : pc[w] \in {"decoding", "dispatching", "incrFinished"}}

\* C20: per queue the rate counter never exceeds the finished counter, the payloads
\* popped are the finished counter plus the jobs skipped plus the loops between pop
\* and finished-counter increment, and those loops are at most the plan's count.
C20_Accounting ==
    \A q \in Suffixes :
        /\ rpm[q] <= finished[q]
        /\ SumOver(pops, IdsOf(q)) =
               finished[q] + Cardinality(Skipped(q)) + Cardinality(InFlight(q))
        /\ Cardinality(InFlight(q)) <= Plan[q]
        /\ Cardinality(InFlight(q)) =
               Cardinality({id \in IdsOf(q) : Holders(id) # {} /\ fins[id] = 0})

\* on the two-loop queue one job is counted, one was skipped
C20_Witness ==
    /\ finished["a"] = 1
    /\ Cardinality(Skipped("a")) = 1
    /\ SumOver(pops, IdsOf("a")) = 2
    /\ InFlight("a") = {}
====
